---- MODULE Spec2Model ----
(***************************************************************************)
(* Model of social-media-service-go: the hard erasure of an account        *)
(* (account service GDPRDeleteAccount over the relational store and the    *)
(* S3 blob store) and the listing of posts ranked by comment count         *)
(* (post repository GetPostsSortedByComments).                             *)
(***************************************************************************)
EXTENDS Integers, Sequences, FiniteSets, TLC

(* ------------------------------ bounds -------------------------------- *)

\* accounts 1..MaxAccounts exist initially
MaxAccounts == 2
\* posts 1..MaxPosts exist initially in the erasure specification
MaxPosts == 2

AccountIds == 1..MaxAccounts
PostIds == 1..MaxPosts

(* --------------------------- blob store keys -------------------------- *)

\* An object key "post_<ts><tail><ext>" is the record of its parts: the
\* upload timestamp ts, the tail of "_orig" markers after it, and the
\* extension.  NoPath is the empty image_path.
NoPath == [ts |-> 0, tail |-> 0, ext |-> ""]

\* config.go:93, the extensions validateFile accepts by default
AllowedExts == <<".png", ".jpg", ".jpeg", ".bmp">>

\* image.go:83  processedKey := fmt.Sprintf("post_%d.jpg", timestamp)
processedKey(ts) == [ts |-> ts, tail |-> 0, ext |-> ".jpg"]

\* image.go:71  originalKey := fmt.Sprintf("post_%d_orig%s", timestamp, originalExt)
originalKey(ts, originalExt) == [ts |-> ts, tail |-> 1, ext |-> originalExt]

\* image.go:169-175  base := TrimSuffix(imagePath, Ext(imagePath));
\* candidates are base + "_orig" + one of the four extensions, in this order
candidates(imagePath) ==
    << [ts |-> imagePath.ts, tail |-> imagePath.tail + 1, ext |-> ".png"],
       [ts |-> imagePath.ts, tail |-> imagePath.tail + 1, ext |-> ".jpg"],
       [ts |-> imagePath.ts, tail |-> imagePath.tail + 1, ext |-> ".jpeg"],
       [ts |-> imagePath.ts, tail |-> imagePath.tail + 1, ext |-> ".bmp"] >>

Range(s) == {s[i] : i \in 1..Len(s)}

\* every key DeleteImage passes to deleteFromS3: the path itself, then the candidates
deleteTargets(imagePath) == <<imagePath>> \o candidates(imagePath)

\* s3 Delete (DeleteObject): the object is removed unless the request fails;
\* deleting an absent key succeeds.  failing is the set of keys whose request fails.
deleteFromS3(store, key, failing) ==
    IF key \in failing THEN [store |-> store, err |-> TRUE]
                       ELSE [store |-> store \ {key}, err |-> FALSE]

RECURSIVE deleteAll(_, _, _)
deleteAll(store, keys, failing) ==
    IF keys = <<>> THEN store
    ELSE deleteAll(deleteFromS3(store, Head(keys), failing).store, Tail(keys), failing)

\* DeleteImage reporting a key that is not in the bucket as a failure
DeleteImage_absentFails(store, imagePath, failing) ==
    [store |-> deleteAll(store, deleteTargets(imagePath), failing),
     err |-> \E k \in Range(deleteTargets(imagePath)) : k \notin store]

\* image.go:164-180  every deleteFromS3 result is discarded ("_ =") and the
\* function returns nil
DeleteImage(store, imagePath, failing) ==
    [store |-> deleteAll(store, deleteTargets(imagePath), failing), err |-> FALSE]

(* ------------------------------ state --------------------------------- *)

VARIABLES
    accounts,    \* committed rows of table accounts (their ids)
    posts,       \* committed rows of table posts
    comments,    \* committed rows of table comments
    blobs,       \* keys of the objects in the S3 bucket
    pc,          \* position of the GDPRDeleteAccount call; crashed if the process died in it
    id,          \* its argument
    tx,          \* its transaction: none, open, committed, rolledback, commitfailed
    txDeleted,   \* account ids deleted inside the open transaction
    imagePaths,  \* the collected image paths
    idx,         \* next index of the loop over imagePaths
    result,      \* none while running, ok, or the error returned
    errKey,      \* the path named by the returned error
    rollbacks,   \* tx.Rollback() calls of this call
    pre,         \* relational and blob state when the call started
    s3Failed,    \* keys whose DeleteObject request failed during this call
    s3Calls,     \* keys DeleteObject was requested for during this call
    prevOk,      \* id of the call before this one if it returned success, else 0
    cancelled,   \* the caller cancelled the context of this call
    llimit,      \* the limit a client pages the ranked listing with
    lcursor,     \* the cursor it passes next
    lstate,      \* start, more (a cursor to follow), done (hasMore false), failed
    lresp,       \* the last response of GetPostsSortedByComments
    lprev,       \* the last row of the page before it
    lseen,       \* ids of the posts of all pages so far, in order
    lquery,      \* what the last listing call asked of the store, and its answer
    lstatus,     \* HTTP status of the last GET /api/posts, 0 before the first
    cfgExts,     \* configuration: StorageConfig.AllowedExts
    upc,         \* position of the CreatePostWithImage call
    ufile,       \* extension of the file name it was given
    ucreator,    \* its creatorID
    uts,         \* the timestamp of its keys; also the number of calls so far
    uresult,     \* none while running, ok, or the error returned
    uploads,     \* timestamp, original extension and creator of every post the upload path created
    dcalls,      \* keys DeleteObject was requested for by DeletePost
    fcall,       \* the last listing call of the feed client: function, cursor, creator
    frepo,       \* what the repository returned to the service in that call
    fresp,       \* the response of that call
    ffail,       \* index of the post whose last-comments lookup failed in it, 0 if none
    fcalls,      \* number of listing calls of the feed client so far
    fwrites,      \* number of soft deletes so far
    pc2,         \* where a second, concurrent GDPRDeleteAccount call stands
    id2,         \* the account id it was called with
    imagePaths2, \* the paths it collected
    idx2,        \* its position in the loop over them
    result2,     \* what it returned
    txDeleted2   \* the account rows its open transaction has deleted

storeVars == <<accounts, posts, comments, blobs>>
eraseVars == <<pc, id, tx, txDeleted, imagePaths, idx, result, errKey, rollbacks,
               pre, s3Failed, s3Calls, prevOk, cancelled>>
listVars == <<llimit, lcursor, lstate, lresp, lprev, lseen, lquery, lstatus>>
uploadVars == <<cfgExts, upc, ufile, ucreator, uts, uresult, uploads, dcalls>>
feedVars == <<fcall, frepo, fresp, ffail, fcalls, fwrites>>
secondVars == <<pc2, id2, imagePaths2, idx2, result2, txDeleted2>>
vars == <<storeVars, eraseVars, listVars, uploadVars, feedVars, secondVars>>

(* --------------------------- relational store ------------------------- *)

\* migration 000002: posts.creator_id and comments.creator_id, comments.post_id
\* are ON DELETE CASCADE
cascadePosts(ps, gone) == {p \in ps : p.creator_id \notin gone}
cascadeComments(cs, ps, gone) ==
    {c \in cs : c.creator_id \notin gone
                /\ \E p \in cascadePosts(ps, gone) : p.id = c.post_id}

Perms(S) == {s \in [1..Cardinality(S) -> S] : \A i, j \in 1..Cardinality(S) : s[i] = s[j] => i = j}

\* the query without "creator_id = $1"
ListUserPostImagePathsTx_allUsers(userID) ==
    LET rows == {p \in cascadePosts(posts, txDeleted) : ~p.deleted /\ p.image_path # NoPath}
    IN  {[i \in 1..Len(s) |-> s[i].image_path] : s \in Perms(rows)}

\* the query without "AND deleted_at IS NULL"
ListUserPostImagePathsTx_withDeleted(userID) ==
    LET rows == {p \in cascadePosts(posts, txDeleted) :
                    p.creator_id = userID /\ p.image_path # NoPath}
    IN  {[i \in 1..Len(s) |-> s[i].image_path] : s \in Perms(rows)}

\* k6-load-test.js:404-428  SELECT image_path FROM posts WHERE creator_id = $1
\* AND deleted_at IS NULL, empty paths skipped; the rows come in any order
ListUserPostImagePathsTx(userID) ==
    LET rows == {p \in cascadePosts(posts, txDeleted) :
                    p.creator_id = userID /\ ~p.deleted /\ p.image_path # NoPath}
    IN  {[i \in 1..Len(s) |-> s[i].image_path] : s \in Perms(rows)}

Snapshot == [accounts |-> accounts, posts |-> posts, comments |-> comments, blobs |-> blobs]


(* --------------------------- ranked listing --------------------------- *)

\* a cursor is a string: the sequence of its characters; "" is no cursor
NoCursor == <<>>
NoRow == [id |-> 0, comment_count |-> 0, created_at |-> 0]
NoResponse == [err |-> FALSE, posts |-> <<>>, cursor |-> NoCursor, hasMore |-> FALSE]

Digits == <<"0", "1", "2", "3", "4", "5", "6", "7", "8", "9">>

\* fmt.Sprintf("%d", n) for n >= 0: the decimal digits of n
RECURSIVE Itoa(_)
Itoa(n) == IF n < 10 THEN <<Digits[n + 1]>> ELSE Append(Itoa(n \div 10), Digits[(n % 10) + 1])

\* the store reading a text argument as a bigint: its value, or -1 when the
\* text is not a decimal number
DigitValue(ch) == IF \E d \in 1..10 : Digits[d] = ch THEN (CHOOSE d \in 1..10 : Digits[d] = ch) - 1 ELSE -1
RECURSIVE Atoi(_)
Atoi(str) ==
    IF str = <<>> THEN -1
    ELSE LET d == DigitValue(str[Len(str)])
         IN  IF d < 0 THEN -1
             ELSE IF Len(str) = 1 THEN d
             ELSE LET rest == Atoi(SubSeq(str, 1, Len(str) - 1))
                  IN  IF rest < 0 THEN -1 ELSE rest * 10 + d

\* migration 000002:55-69  view posts_with_comment_count: the posts that are
\* not soft-deleted, each with the number of its comments that are not
\* soft-deleted (0 when it has none)
\* the view counting every comment, soft-deleted ones too
posts_with_comment_count_allComments ==
    {[id |-> p.id, created_at |-> p.created_at, deleted |-> p.deleted,
      comment_count |-> Cardinality({c \in comments : c.post_id = p.id})]
        : p \in {q \in posts : ~q.deleted}}

posts_with_comment_count ==
    {[id |-> p.id, created_at |-> p.created_at, deleted |-> p.deleted,
      comment_count |-> Cardinality({c \in comments : c.post_id = p.id /\ ~c.deleted})]
        : p \in {q \in posts : ~q.deleted}}

\* ORDER BY comment_count DESC, created_at ASC
RankedBefore_oldestFirst(r1, r2) ==
    \/ r1.comment_count > r2.comment_count
    \/ r1.comment_count = r2.comment_count /\ r1.created_at <= r2.created_at

\* ORDER BY comment_count DESC, created_at DESC
RankedBefore(r1, r2) ==
    \/ r1.comment_count > r2.comment_count
    \/ r1.comment_count = r2.comment_count /\ r1.created_at >= r2.created_at

OrderedRows(rows) ==
    {s \in Perms(rows) : \A i, j \in 1..Len(s) : i < j => RankedBefore(s[i], s[j])}

FirstN(s, n) == SubSeq(s, 1, IF n < Len(s) THEN n ELSE Len(s))

\* repository.go:283-285
DefaultLimit == 20
MaxLimit == 100
\* a limit above the maximum cut down to the maximum
effectiveLimit_clamp(limit) ==
    IF limit <= 0 THEN DefaultLimit ELSE IF limit > MaxLimit THEN MaxLimit ELSE limit
effectiveLimit(limit) == IF limit <= 0 \/ limit > MaxLimit THEN DefaultLimit ELSE limit

\* repository.go:287-300  the statement and its arguments: with a cursor the
\* text gets "comment_count < $1 OR (comment_count = $1 AND created_at < $2)"
\* and the cursor is the only argument appended for it; the text ends with
\* LIMIT $<len(args)+1> and limit+1 is appended
rankedStatement(cursor, limit) ==
    LET args == IF cursor # NoCursor THEN <<cursor>> ELSE <<>>
    IN  [bounded |-> cursor # NoCursor,
         countParam |-> 1,
         timeParam |-> 2,
         limitParam |-> Len(args) + 1,
         args |-> Append(args, limit + 1)]

\* QueryContext on the store: PostgreSQL gives every placeholder one type, so
\* a statement that compares a placeholder with created_at and also uses it
\* as LIMIT is rejected, and so is a count argument that is no number;
\* otherwise the rows past the boundary in ranked order, cut at LIMIT
QueryContext(stmt, order) ==
    IF stmt.bounded /\ stmt.timeParam = stmt.limitParam
    THEN [err |-> TRUE, rows |-> <<>>]
    ELSE IF stmt.bounded /\ Atoi(stmt.args[stmt.countParam]) < 0
    THEN [err |-> TRUE, rows |-> <<>>]
    ELSE LET past(r) == \/ ~stmt.bounded
                        \/ r.comment_count < Atoi(stmt.args[stmt.countParam])
                        \/ /\ r.comment_count = Atoi(stmt.args[stmt.countParam])
                           /\ r.created_at < stmt.args[stmt.timeParam]
             sel == SelectSeq(order, past)
         IN  [err |-> FALSE, rows |-> FirstN(sel, stmt.args[stmt.limitParam])]

\* repository.go:332  the cursor of a page is the comment count of its last row
nextCursor(row) == Itoa(row.comment_count)

\* GetPostsSortedByComments taking the cursor from the extra row it fetched
GetPostsSortedByComments_extraRow(cursor, limit, order) ==
    LET lim == effectiveLimit(limit)
        res == QueryContext(rankedStatement(cursor, lim), order)
        hasMore == Len(res.rows) > lim
        page == IF hasMore THEN SubSeq(res.rows, 1, lim) ELSE res.rows
    IN  IF res.err THEN [err |-> TRUE, posts |-> <<>>, cursor |-> NoCursor, hasMore |-> FALSE]
        ELSE [err |-> FALSE, posts |-> page,
              cursor |-> IF hasMore /\ Len(page) > 0 THEN nextCursor(res.rows[Len(res.rows)]) ELSE NoCursor,
              hasMore |-> hasMore]

\* GetPostsSortedByComments taking a full result for more to come
GetPostsSortedByComments_offByOne(cursor, limit, order) ==
    LET lim == effectiveLimit(limit)
        res == QueryContext(rankedStatement(cursor, lim), order)
        hasMore == Len(res.rows) >= lim
        page == IF hasMore THEN SubSeq(res.rows, 1, lim) ELSE res.rows
    IN  IF res.err THEN [err |-> TRUE, posts |-> <<>>, cursor |-> NoCursor, hasMore |-> FALSE]
        ELSE [err |-> FALSE, posts |-> page,
              cursor |-> IF hasMore /\ Len(page) > 0 THEN nextCursor(page[Len(page)]) ELSE NoCursor,
              hasMore |-> hasMore]

\* repository.go:282-340; order is the ranked order the store produces
GetPostsSortedByComments(cursor, limit, order) ==
    LET lim == effectiveLimit(limit)
        res == QueryContext(rankedStatement(cursor, lim), order)
        hasMore == Len(res.rows) > lim
        page == IF hasMore THEN SubSeq(res.rows, 1, lim) ELSE res.rows
    IN  IF res.err THEN [err |-> TRUE, posts |-> <<>>, cursor |-> NoCursor, hasMore |-> FALSE]
        ELSE [err |-> FALSE, posts |-> page,
              cursor |-> IF hasMore /\ Len(page) > 0 THEN nextCursor(page[Len(page)]) ELSE NoCursor,
              hasMore |-> hasMore]

\* repository.go:302-312  the QueryContext call of GetPostsSortedByComments as
\* the store sees it: the LIMIT argument, and the error or the rows it answers
NoQuery == [issued |-> FALSE, cursorArg |-> NoCursor, limitArg |-> 0, err |-> FALSE, rows |-> <<>>]
storeQuery(cursor, limit, order) ==
    LET stmt == rankedStatement(cursor, effectiveLimit(limit))
        res == QueryContext(stmt, order)
    IN  [issued |-> TRUE, cursorArg |-> IF stmt.bounded THEN stmt.args[stmt.countParam] ELSE NoCursor,
         limitArg |-> stmt.args[Len(stmt.args)],
         err |-> res.err, rows |-> res.rows]

\* post/port/http.go:73-79  any error of the service is sent as 500 Internal
\* Server Error, a response as 200 OK
StatusOK == 200
StatusInternalServerError == 500
GetApiPosts(resp) == IF resp.err THEN StatusInternalServerError ELSE StatusOK

(* ------------------------------- Init ---------------------------------- *)

\* a row of posts, with the key of its processed image or an empty image_path
PostRow(n, creator, deleted, hasImage) ==
    [id |-> n, creator_id |-> creator, deleted |-> deleted, created_at |-> n,
     image_path |-> IF hasImage THEN processedKey(n) ELSE NoPath]

\* the extension of the file uploaded for post n: the allowed ones in turn
UploadExt(n) == AllowedExts[((n - 1) % Len(AllowedExts)) + 1]

\* no GDPRDeleteAccount call has been made
EraseIdle ==
    /\ pc = "idle" /\ id = 0 /\ tx = "none" /\ txDeleted = {}
    /\ imagePaths = <<>> /\ idx = 1 /\ result = "none" /\ errKey = NoPath
    /\ rollbacks = 0 /\ s3Failed = {} /\ s3Calls = {}
    /\ pre = Snapshot
    /\ prevOk = 0
    /\ cancelled = FALSE

\* no listing call has been made
ListIdle ==
    /\ llimit = 0 /\ lcursor = NoCursor /\ lstate = "start"
    /\ lresp = NoResponse /\ lprev = NoRow /\ lseen = <<>>
    /\ lquery = NoQuery /\ lstatus = 0

\* the default configuration; no CreatePostWithImage or DeletePost call has
\* been made
UploadIdle ==
    /\ cfgExts = Range(AllowedExts)
    /\ upc = "idle" /\ ufile = "" /\ ucreator = 0 /\ uts = 0 /\ uresult = "none"
    /\ uploads = {} /\ dcalls = {}

\* the feed client has made no call
NoCall == [fn |-> "none", cursor |-> NoCursor, creator |-> 0]
FeedIdle ==
    /\ fcall = NoCall /\ frepo = NoResponse /\ fresp = NoResponse
    /\ ffail = 0 /\ fcalls = 0 /\ fwrites = 0

\* no second GDPRDeleteAccount call runs
SecondIdle ==
    /\ pc2 = "idle" /\ id2 = 0 /\ imagePaths2 = <<>> /\ idx2 = 1
    /\ result2 = "none" /\ txDeleted2 = {}

\* every account exists; each post belongs to some account and is a live post
\* with its processed and original object in the bucket, a live post with an
\* empty image_path, or a soft-deleted post whose objects are gone
InitErase ==
    /\ accounts = AccountIds
    /\ \E creator \in [PostIds -> AccountIds],
          kind \in [PostIds -> {"image", "empty", "deleted"}] :
          /\ posts = {PostRow(n, creator[n], kind[n] = "deleted", kind[n] # "empty") : n \in PostIds}
          /\ blobs = UNION {IF kind[n] = "image"
                            THEN {processedKey(n), originalKey(n, UploadExt(n))}
                            ELSE {} : n \in PostIds}
    /\ comments = {[id |-> n, post_id |-> n, creator_id |-> 1, deleted |-> FALSE, created_at |-> n] : n \in PostIds}
    /\ EraseIdle
    /\ ListIdle
    /\ UploadIdle
    /\ FeedIdle
    /\ SecondIdle

(* ------------------------- GDPRDeleteAccount --------------------------- *)

\* the outcomes of a call that takes the request context (QueryContext,
\* ExecContext, Commit of a transaction begun with it): it can succeed or
\* fail, and only fail once the context is cancelled
CtxOutcomes == IF cancelled THEN {FALSE} ELSE BOOLEAN

\* the call returns res; key is the path its error names
Return(res, key) ==
    /\ pc' = "done"
    /\ result' = res
    /\ errKey' = key

\* service.go:125-132  the call starts: BeginTx, error returned if it fails
GDPRBegin(a) ==
    /\ pc \in {"idle", "done", "crashed"}
    /\ prevOk' = IF result = "ok" THEN id ELSE 0
    /\ cancelled' = FALSE
    /\ id' = a
    /\ pre' = Snapshot
    /\ imagePaths' = <<>> /\ idx' = 1 /\ rollbacks' = 0
    /\ s3Failed' = {} /\ s3Calls' = {} /\ txDeleted' = {}
    /\ \E ok \in BOOLEAN :
          IF ok THEN /\ tx' = "open" /\ pc' = "begin" /\ result' = "none"
                     /\ errKey' = NoPath
                ELSE /\ tx' = "none" /\ Return("begin_failed", NoPath)
    /\ UNCHANGED <<storeVars, listVars, uploadVars, feedVars, secondVars>>

\* service.go:134-139  collect the image paths inside the transaction
GDPRCollect ==
    /\ pc = "begin"
    /\ \E ok \in CtxOutcomes :
          IF ok THEN /\ \E paths \in ListUserPostImagePathsTx(id) : imagePaths' = paths
                     /\ idx' = 1
                     /\ pc' = IF imagePaths' = <<>> THEN "delete" ELSE "loop"
                     /\ UNCHANGED <<tx, rollbacks, result, errKey>>
                ELSE /\ tx' = "rolledback" /\ rollbacks' = rollbacks + 1
                     /\ Return("list_failed", NoPath)
                     /\ UNCHANGED <<imagePaths, idx>>
    /\ UNCHANGED <<storeVars, listVars, uploadVars, feedVars, id, txDeleted, pre, s3Failed, s3Calls, prevOk, cancelled, secondVars>>

\* service.go:142-147  one iteration of the loop: DeleteImage(path), rollback
\* and return if it reports an error
GDPRDeleteImage ==
    /\ pc = "loop"
    /\ idx <= Len(imagePaths)
    /\ LET path == imagePaths[idx]
           keys == Range(deleteTargets(path))
       IN  \E failing \in SUBSET (keys \cap blobs) :
              LET r == DeleteImage(blobs, path, failing)
              IN  /\ blobs' = r.store
                  /\ s3Failed' = s3Failed \cup failing
                  /\ s3Calls' = s3Calls \cup keys
                  /\ IF r.err
                     THEN /\ tx' = "rolledback" /\ rollbacks' = rollbacks + 1
                          /\ Return("image_failed", path)
                          /\ UNCHANGED idx
                     ELSE /\ idx' = idx + 1
                          /\ pc' = IF idx' > Len(imagePaths) THEN "delete" ELSE "loop"
                          /\ UNCHANGED <<tx, rollbacks, result, errKey>>
    /\ UNCHANGED <<accounts, posts, comments, listVars, uploadVars, feedVars, id, txDeleted, imagePaths, pre, prevOk, cancelled, secondVars>>

\* k6-load-test.js:431-434  DELETE FROM accounts WHERE id = $1 inside tx; only the
\* statement's error is returned, the number of affected rows is not looked at
DeleteTx(a, ok) == [err |-> ~ok, txDeleted |-> IF ok THEN txDeleted \cup {a} ELSE txDeleted]

\* GDPRDeleteAccount returning the DeleteTx error without calling Rollback
GDPRDeleteRows_noRollback ==
    /\ pc = "delete"
    /\ id \notin txDeleted2
    /\ \E ok \in CtxOutcomes :
          LET r == DeleteTx(id, ok)
          IN  IF r.err
              THEN /\ Return("delete_failed", NoPath)
                   /\ UNCHANGED <<tx, rollbacks, txDeleted>>
              ELSE /\ txDeleted' = r.txDeleted
                   /\ pc' = "commit"
                   /\ UNCHANGED <<tx, rollbacks, result, errKey>>
    /\ UNCHANGED <<storeVars, listVars, uploadVars, feedVars, id, imagePaths, idx, pre, s3Failed, s3Calls, prevOk, cancelled, secondVars>>

\* service.go:149-153  DeleteTx, Rollback and return if it fails.  The DELETE
\* waits while another open transaction has deleted the same row
GDPRDeleteRows ==
    /\ pc = "delete"
    /\ id \notin txDeleted2
    /\ \E ok \in CtxOutcomes :
          LET r == DeleteTx(id, ok)
          IN  IF r.err
              THEN /\ tx' = "rolledback" /\ rollbacks' = rollbacks + 1
                   /\ txDeleted' = {}
                   /\ Return("delete_failed", NoPath)
              ELSE /\ txDeleted' = r.txDeleted
                   /\ pc' = "commit"
                   /\ UNCHANGED <<tx, rollbacks, result, errKey>>
    /\ UNCHANGED <<storeVars, listVars, uploadVars, feedVars, id, imagePaths, idx, pre, s3Failed, s3Calls, prevOk, cancelled, secondVars>>

\* GDPRDeleteAccount returning nil also when Commit fails
GDPRCommit_swallow ==
    /\ pc = "commit"
    /\ \E ok \in CtxOutcomes :
          IF ok THEN /\ accounts' = accounts \ txDeleted
                     /\ posts' = cascadePosts(posts, txDeleted)
                     /\ comments' = cascadeComments(comments, posts, txDeleted)
                     /\ tx' = "committed"
                     /\ Return("ok", NoPath)
                ELSE /\ tx' = IF cancelled THEN tx ELSE "commitfailed"
                     /\ Return("ok", NoPath)
                     /\ UNCHANGED <<accounts, posts, comments>>
    /\ txDeleted' = {}
    /\ UNCHANGED <<blobs, listVars, uploadVars, feedVars, id, imagePaths, idx, rollbacks, pre, s3Failed, s3Calls, prevOk, cancelled, secondVars>>

\* service.go:155-160  Commit; on failure the error is returned, Rollback is
\* not called.  A transaction already ended by the cancelled context stays
\* rolled back and Commit reports an error.
GDPRCommit ==
    /\ pc = "commit"
    /\ \E ok \in CtxOutcomes :
          IF ok THEN /\ accounts' = accounts \ txDeleted
                     /\ posts' = cascadePosts(posts, txDeleted)
                     /\ comments' = cascadeComments(comments, posts, txDeleted)
                     /\ tx' = "committed"
                     /\ Return("ok", NoPath)
                ELSE /\ tx' = IF cancelled THEN tx ELSE "commitfailed"
                     /\ Return("commit_failed", NoPath)
                     /\ UNCHANGED <<accounts, posts, comments>>
    /\ txDeleted' = {}
    /\ UNCHANGED <<blobs, listVars, uploadVars, feedVars, id, imagePaths, idx, rollbacks, pre, s3Failed, s3Calls, prevOk, cancelled, secondVars>>

NextErase ==
    \/ \E a \in AccountIds : GDPRBegin(a)
    \/ GDPRCollect
    \/ GDPRDeleteImage
    \/ GDPRDeleteRows
    \/ GDPRCommit

Spec == InitErase /\ [][NextErase]_vars

\* a call that has started runs to its return: every step of it is a call
\* that returns (no step waits on another call)
SpecLive ==
    /\ Spec
    /\ WF_vars(GDPRCollect) /\ WF_vars(GDPRDeleteImage)
    /\ WF_vars(GDPRDeleteRows) /\ WF_vars(GDPRCommit)

(* ---------------------- cancellation and crashes ----------------------- *)

\* the call is between BeginTx and its return
Running == pc \in {"begin", "loop", "delete", "commit"}

\* the caller cancels the request context while the call runs: database/sql
\* rolls back the transaction begun with that context (BeginTx(ctx),
\* k6-load-test.js:383-401); DeleteImage takes no context and deleteFromS3
\* uses context.Background() (image.go:183-186)
Cancel ==
    /\ Running /\ ~cancelled
    /\ cancelled' = TRUE
    /\ tx' = "rolledback"
    /\ txDeleted' = {}
    /\ UNCHANGED <<storeVars, listVars, uploadVars, feedVars, pc, id, imagePaths, idx, result, errKey,
                   rollbacks, pre, s3Failed, s3Calls, prevOk, secondVars>>

\* the process dies while the call runs: the store discards the open
\* transaction, the objects already deleted stay deleted
Crash ==
    /\ Running
    /\ pc' = "crashed"
    /\ tx' = IF tx = "open" THEN "rolledback" ELSE tx
    /\ txDeleted' = {}
    /\ UNCHANGED <<storeVars, listVars, uploadVars, feedVars, id, imagePaths, idx, result, errKey,
                   rollbacks, pre, s3Failed, s3Calls, prevOk, cancelled, secondVars>>

NextFaults == NextErase \/ Cancel \/ Crash

SpecFaults == InitErase /\ [][NextFaults]_vars

(* ------------------------- paging the listing -------------------------- *)

\* posts 1..MaxListPosts exist in the listing specification
MaxListPosts == 3
\* a post has at most MaxComments live comments
MaxComments == 3
ListPostIds == 1..MaxListPosts
\* limits a client asks for: negative, none or 0, small ones, the maximum and
\* one above it
ListLimits == {-1, 0, 1, 2, MaxLimit, MaxLimit + 1}

CommentRow(p, k, deleted) ==
    [id |-> (p - 1) * (MaxComments + 1) + k, post_id |-> p, creator_id |-> 1,
     deleted |-> deleted, created_at |-> k]

\* posts created one after the other in the order of their ids, any of them
\* soft-deleted, each with 0..MaxComments live comments and one soft-deleted
\* comment
InitList ==
    /\ accounts = AccountIds
    /\ blobs = {}
    /\ \E gone \in SUBSET ListPostIds,
          n \in [ListPostIds -> 0..MaxComments] :
          /\ posts = {[id |-> p, creator_id |-> 1, deleted |-> p \in gone,
                       created_at |-> p, image_path |-> NoPath] : p \in ListPostIds}
          /\ comments = UNION {{CommentRow(p, k, FALSE) : k \in 1..n[p]} \cup {CommentRow(p, 0, TRUE)}
                                 : p \in ListPostIds}
    /\ EraseIdle
    /\ UploadIdle
    /\ FeedIdle
    /\ SecondIdle
    /\ lcursor = NoCursor /\ lstate = "start"
    /\ lresp = NoResponse /\ lprev = NoRow /\ lseen = <<>>
    /\ lquery = NoQuery /\ lstatus = 0
    /\ llimit \in ListLimits

\* post/port/http.go:62-80 calling GetPostsSortedByComments: the client asks
\* for the first page, then for the page after the cursor it was given
ListPage ==
    /\ lstate \in {"start", "more"}
    /\ \E order \in OrderedRows(posts_with_comment_count) :
          LET r == GetPostsSortedByComments(lcursor, llimit, order)
          IN  /\ lresp' = r
              /\ lprev' = IF lseen = <<>> THEN NoRow ELSE lresp.posts[Len(lresp.posts)]
              /\ lseen' = lseen \o [i \in 1..Len(r.posts) |-> r.posts[i].id]
              /\ lcursor' = r.cursor
              /\ lstate' = IF r.err THEN "failed" ELSE IF r.hasMore THEN "more" ELSE "done"
              /\ lquery' = storeQuery(lcursor, llimit, order)
              /\ lstatus' = GetApiPosts(r)
    /\ UNCHANGED <<storeVars, eraseVars, uploadVars, feedVars, llimit, secondVars>>

\* cursor tokens a client makes up: no decimal number, a number cut short by
\* a stray character, and a number
ProbeTokens == {<<"!">>, <<"1", "!">>, <<"7">>}

\* post/port/http.go:62-80  a first request that carries a made-up cursor
ListProbe ==
    /\ lstate = "start"
    /\ \E token \in ProbeTokens, order \in OrderedRows(posts_with_comment_count) :
          LET r == GetPostsSortedByComments(token, llimit, order)
          IN  /\ lcursor' = token
              /\ lresp' = r
              /\ lquery' = storeQuery(token, llimit, order)
              /\ lstatus' = GetApiPosts(r)
              /\ lstate' = "probed"
    /\ UNCHANGED <<storeVars, eraseVars, uploadVars, feedVars, llimit, lprev, lseen, secondVars>>

NextList == ListPage \/ ListProbe

SpecList == InitList /\ [][NextList]_vars

(* ------------------- creating and deleting posts ----------------------- *)

\* CreatePostWithImage is called at most MaxUploads times
MaxUploads == 2

\* ALLOWED_EXTENSIONS (config.go:93): left at its default, or set to the
\* default list with .gif added
Configs == {Range(AllowedExts), Range(AllowedExts) \cup {".gif"}}

\* filepath.Ext(header.Filename) of the files a client sends
FileExts == {".png", ".JPG", ".jpeg", ".bmp", ".gif", ".txt", ""}

\* strings.ToLower on these extensions
ToLower(ext) == IF ext = ".JPG" THEN ".jpg" ELSE ext

\* image.go:95-110  size within MaxSize and the lower-cased extension among
\* the configured ones
validateFile(ext, sizeOk) == sizeOk /\ ToLower(ext) \in cfgExts

\* image.go:69-72  originalExt, ".bin" for a name without extension
originalExtOf(ext) == IF ToLower(ext) = "" THEN ".bin" ELSE ToLower(ext)

\* no post exists, the bucket is empty, the configuration is one of Configs
InitPost ==
    /\ accounts = AccountIds /\ posts = {} /\ comments = {} /\ blobs = {}
    /\ EraseIdle
    /\ ListIdle
    /\ cfgExts \in Configs
    /\ upc = "idle" /\ ufile = "" /\ ucreator = 0 /\ uts = 0 /\ uresult = "none"
    /\ uploads = {} /\ dcalls = {}
    /\ FeedIdle
    /\ SecondIdle

\* the CreatePostWithImage call returns res
UploadReturn(res) == upc' = "done" /\ uresult' = res

\* part_015:525-530, image.go:51-66  the call starts: caption and file are
\* validated, the timestamp of the keys is taken
UploadBegin(creator, ext, captionOk, sizeOk) ==
    /\ upc \in {"idle", "done"}
    /\ uts < MaxUploads
    /\ uts' = uts + 1
    /\ ufile' = ext
    /\ ucreator' = creator
    /\ IF captionOk /\ validateFile(ext, sizeOk)
       THEN upc' = "original" /\ uresult' = "none"
       ELSE UploadReturn("validation_failed")
    /\ UNCHANGED <<storeVars, eraseVars, listVars, feedVars, cfgExts, uploads, dcalls, secondVars>>

\* image.go:68-77  the file is uploaded under the original key
UploadOriginal ==
    /\ upc = "original"
    /\ \E ok \in BOOLEAN :
          IF ok THEN /\ blobs' = blobs \cup {originalKey(uts, originalExtOf(ufile))}
                     /\ upc' = "process"
                     /\ UNCHANGED uresult
                ELSE /\ UploadReturn("original_upload_failed")
                     /\ UNCHANGED blobs
    /\ UNCHANGED <<accounts, posts, comments, eraseVars, listVars, feedVars,
                   cfgExts, ufile, ucreator, uts, uploads, dcalls, secondVars>>

\* image.go:78-82  processImage: decode, resize, encode; an error is returned
\* as it is
UploadProcess ==
    /\ upc = "process"
    /\ \E ok \in BOOLEAN :
          IF ok THEN upc' = "processed" /\ UNCHANGED uresult
                ELSE UploadReturn("processing_failed")
    /\ UNCHANGED <<storeVars, eraseVars, listVars, feedVars,
                   cfgExts, ufile, ucreator, uts, uploads, dcalls, secondVars>>

\* image.go:84-91  the processed image is uploaded under the processed key
UploadProcessed ==
    /\ upc = "processed"
    /\ \E ok \in BOOLEAN :
          IF ok THEN /\ blobs' = blobs \cup {processedKey(uts)}
                     /\ upc' = "create"
                     /\ UNCHANGED uresult
                ELSE /\ UploadReturn("processed_upload_failed")
                     /\ UNCHANGED blobs
    /\ UNCHANGED <<accounts, posts, comments, eraseVars, listVars, feedVars,
                   cfgExts, ufile, ucreator, uts, uploads, dcalls, secondVars>>

\* part_015:538-552  the row is inserted with the processed key as its
\* image_path; if that fails DeleteImage(imagePath) is called.  The insert
\* is checked against accounts (creator_id REFERENCES accounts, 000002
\* up.sql:7): it waits while an open transaction has deleted the creator's
\* row, and fails when the row is gone
UploadCreate ==
    /\ upc = "create"
    /\ ucreator \notin txDeleted \cup txDeleted2
    /\ \E ok \in (IF ucreator \in accounts THEN BOOLEAN ELSE {FALSE}) :
          IF ok THEN /\ posts' = posts \cup {PostRow(uts, ucreator, FALSE, TRUE)}
                     /\ uploads' = uploads \cup {[ts |-> uts, ext |-> originalExtOf(ufile),
                                                   creator |-> ucreator]}
                     /\ UploadReturn("ok")
                     /\ UNCHANGED blobs
                ELSE /\ \E failing \in SUBSET (Range(deleteTargets(processedKey(uts))) \cap blobs) :
                           blobs' = DeleteImage(blobs, processedKey(uts), failing).store
                     /\ UploadReturn("create_failed")
                     /\ UNCHANGED <<posts, uploads>>
    /\ UNCHANGED <<accounts, comments, eraseVars, listVars, feedVars,
                   cfgExts, ufile, ucreator, uts, dcalls, secondVars>>

\* part_015:693-718  DeletePost(id, creatorID) of a live post by its owner:
\* the row is soft-deleted, then DeleteImage is called with its image_path
\* (a call for a missing post, by another account, or whose SoftDelete fails
\* returns an error and changes nothing)
DeletePost(p, creatorID) ==
    /\ p \in posts /\ ~p.deleted
    /\ p.creator_id = creatorID
    /\ posts' = (posts \ {p}) \cup {[p EXCEPT !.deleted = TRUE]}
    /\ \E failing \in SUBSET (Range(deleteTargets(p.image_path)) \cap blobs) :
          blobs' = DeleteImage(blobs, p.image_path, failing).store
    /\ dcalls' = dcalls \cup Range(deleteTargets(p.image_path))
    /\ UNCHANGED <<accounts, comments, eraseVars, listVars, feedVars,
                   cfgExts, upc, ufile, ucreator, uts, uresult, uploads, secondVars>>

NextPost ==
    \/ \E creator \in AccountIds, ext \in FileExts, captionOk, sizeOk \in BOOLEAN :
          UploadBegin(creator, ext, captionOk, sizeOk)
    \/ UploadOriginal
    \/ UploadProcess
    \/ UploadProcessed
    \/ UploadCreate
    \/ \E p \in posts, creatorID \in AccountIds : DeletePost(p, creatorID)

SpecPost == InitPost /\ [][NextPost]_vars

(* ------------------ two erasures of the same account ------------------ *)

\* the second call returns res
Return2(res) == pc2' = "done" /\ result2' = res

\* service.go:125-132  a second call for the same id starts while the first
\* is between BeginTx and its return
GDPRBegin2 ==
    /\ pc2 = "idle"
    /\ Running
    /\ id2' = id
    /\ \E ok \in BOOLEAN :
          IF ok THEN pc2' = "begin" /\ UNCHANGED result2
                ELSE Return2("begin_failed")
    /\ UNCHANGED <<storeVars, eraseVars, listVars, uploadVars, feedVars,
                   imagePaths2, idx2, txDeleted2>>

\* service.go:134-139
GDPRCollect2 ==
    /\ pc2 = "begin"
    /\ \E ok \in BOOLEAN :
          IF ok THEN /\ \E paths \in ListUserPostImagePathsTx(id2) : imagePaths2' = paths
                     /\ pc2' = IF imagePaths2' = <<>> THEN "delete" ELSE "loop"
                     /\ UNCHANGED result2
                ELSE /\ Return2("list_failed")
                     /\ UNCHANGED imagePaths2
    /\ UNCHANGED <<storeVars, eraseVars, listVars, uploadVars, feedVars,
                   id2, idx2, txDeleted2>>

\* service.go:142-147
GDPRDeleteImage2 ==
    /\ pc2 = "loop"
    /\ idx2 <= Len(imagePaths2)
    /\ LET path == imagePaths2[idx2]
       IN  \E failing \in SUBSET (Range(deleteTargets(path)) \cap blobs) :
              LET r == DeleteImage(blobs, path, failing)
              IN  /\ blobs' = r.store
                  /\ IF r.err
                     THEN /\ Return2("image_failed")
                          /\ UNCHANGED idx2
                     ELSE /\ idx2' = idx2 + 1
                          /\ pc2' = IF idx2' > Len(imagePaths2) THEN "delete" ELSE "loop"
                          /\ UNCHANGED result2
    /\ UNCHANGED <<accounts, posts, comments, eraseVars, listVars, uploadVars, feedVars,
                   id2, imagePaths2, txDeleted2>>

\* service.go:149-153  the DELETE waits while the first call's open
\* transaction has deleted the row; it then affects no row and, like any
\* DeleteTx whose statement ran, reports no error
GDPRDeleteRows2 ==
    /\ pc2 = "delete"
    /\ id2 \notin txDeleted
    /\ \E ok \in BOOLEAN :
          IF DeleteTx(id2, ok).err
          THEN /\ Return2("delete_failed")
               /\ UNCHANGED txDeleted2
          ELSE /\ txDeleted2' = {id2}
               /\ pc2' = "commit"
               /\ UNCHANGED result2
    /\ UNCHANGED <<storeVars, eraseVars, listVars, uploadVars, feedVars,
                   id2, imagePaths2, idx2>>

\* service.go:155-160
GDPRCommit2 ==
    /\ pc2 = "commit"
    /\ \E ok \in BOOLEAN :
          IF ok THEN /\ accounts' = accounts \ txDeleted2
                     /\ posts' = cascadePosts(posts, txDeleted2)
                     /\ comments' = cascadeComments(comments, posts, txDeleted2)
                     /\ Return2("ok")
                ELSE /\ Return2("commit_failed")
                     /\ UNCHANGED <<accounts, posts, comments>>
    /\ txDeleted2' = {}
    /\ UNCHANGED <<blobs, eraseVars, listVars, uploadVars, feedVars,
                   id2, imagePaths2, idx2>>

\* one GDPRDeleteAccount call and a second one for the same id that starts
\* while the first runs
NextTwo ==
    \/ \E a \in AccountIds : pc = "idle" /\ GDPRBegin(a)
    \/ GDPRCollect
    \/ GDPRDeleteImage
    \/ GDPRDeleteRows
    \/ GDPRCommit
    \/ GDPRBegin2
    \/ GDPRCollect2
    \/ GDPRDeleteImage2
    \/ GDPRDeleteRows2
    \/ GDPRCommit2

SpecTwo == InitErase /\ [][NextTwo]_vars

(* --------------- posts created while an erasure runs ------------------ *)

\* the files of the uploads that run beside an erasure
RaceExts == {".png", ".JPG"}

\* GDPRDeleteAccount calls and CreatePostWithImage calls of valid files, their
\* steps interleaved: the two run in different requests
NextRace ==
    \/ \E a \in AccountIds : GDPRBegin(a)
    \/ GDPRCollect
    \/ GDPRDeleteImage
    \/ GDPRDeleteRows
    \/ GDPRCommit
    \/ \E creator \in AccountIds, ext \in RaceExts : UploadBegin(creator, ext, TRUE, TRUE)
    \/ UploadOriginal
    \/ UploadProcess
    \/ UploadProcessed
    \/ UploadCreate

\* the default configuration, no post yet
InitRace == InitPost /\ cfgExts = Range(AllowedExts)

SpecRace == InitRace /\ [][NextRace]_vars

(* ------------------ the feed: listings and soft deletes ---------------- *)

\* the feed client makes at most MaxFeedCalls listing calls
MaxFeedCalls == 2
\* at most MaxWrites rows are soft-deleted
MaxWrites == 2

\* time.Format(time.RFC3339Nano) of a created_at, and the store reading such
\* a text as a timestamp (-1 when it is none)
FormatTime(t) == <<"T">> \o Itoa(t)
ParseTime(str) == IF str # <<>> /\ Head(str) = "T" THEN Atoi(Tail(str)) ELSE -1

\* ORDER BY created_at DESC
NewestFirst(rows) ==
    {s \in Perms(rows) : \A i, j \in 1..Len(s) : i < j => s[i].created_at >= s[j].created_at}

\* the page of a listing by creation time that keeps every row it fetched
pageByTime_noTrim(order, cursor, limit) ==
    LET lim == effectiveLimit(limit)
        bound == ParseTime(cursor)
        past(r) == cursor = NoCursor \/ r.created_at < bound
        rows == FirstN(SelectSeq(order, past), lim + 1)
        hasMore == Len(rows) > lim
    IN  IF cursor # NoCursor /\ bound < 0
        THEN [err |-> TRUE, posts |-> <<>>, cursor |-> NoCursor, hasMore |-> FALSE]
        ELSE [err |-> FALSE, posts |-> rows,
              cursor |-> IF hasMore /\ Len(rows) > 0 THEN FormatTime(rows[Len(rows)].created_at) ELSE NoCursor,
              hasMore |-> hasMore]

\* repository.go:71-127 and 132-188  what GetByCreatorID and GetAll do with
\* the rows the store selects, order being those rows newest first: limit
\* defaulted, "created_at < cursor" when there is a cursor, LIMIT limit+1,
\* cut to limit, cursor = created_at of the last post kept
pageByTime(order, cursor, limit) ==
    LET lim == effectiveLimit(limit)
        bound == ParseTime(cursor)
        past(r) == cursor = NoCursor \/ r.created_at < bound
        rows == FirstN(SelectSeq(order, past), lim + 1)
        hasMore == Len(rows) > lim
        page == IF hasMore THEN SubSeq(rows, 1, lim) ELSE rows
    IN  IF cursor # NoCursor /\ bound < 0
        THEN [err |-> TRUE, posts |-> <<>>, cursor |-> NoCursor, hasMore |-> FALSE]
        ELSE [err |-> FALSE, posts |-> page,
              cursor |-> IF hasMore /\ Len(page) > 0 THEN FormatTime(page[Len(page)].created_at) ELSE NoCursor,
              hasMore |-> hasMore]

\* repository.go:131-189  WHERE deleted_at IS NULL
LivePosts == {p \in posts : ~p.deleted}
GetAll(cursor, limit, order) == pageByTime(order, cursor, limit)

\* repository.go:70-128  WHERE creator_id = $1 AND deleted_at IS NULL
PostsOfCreator(creatorID) == {p \in posts : p.creator_id = creatorID /\ ~p.deleted}
GetByCreatorID(creatorID, cursor, limit, order) == pageByTime(order, cursor, limit)

\* GetLastComments without "AND deleted_at IS NULL"
GetLastComments_withDeleted(postID, limit) ==
    LET lim == IF limit <= 0 THEN 2 ELSE limit
        rows == {c \in comments : c.post_id = postID}
    IN  FirstN(CHOOSE s \in NewestFirst(rows) : TRUE, lim)

\* repository.go:242-279  the comments of the post that are not soft-deleted,
\* newest first, at most limit of them (2 when limit <= 0)
GetLastComments(postID, limit) ==
    LET lim == IF limit <= 0 THEN 2 ELSE limit
        rows == {c \in comments : c.post_id = postID /\ ~c.deleted}
    IN  FirstN(CHOOSE s \in NewestFirst(rows) : TRUE, lim)

\* a post of a response with its Comments field set
WithComments(row, cs) ==
    [id |-> row.id, created_at |-> row.created_at, deleted |-> row.deleted,
     comment_count |-> row.comment_count, comments |-> cs]

\* GetPostsWithComments leaving out the posts whose lookup failed
GetPostsWithComments_bestEffort(r, failAt) ==
    IF r.err THEN r
    ELSE [err |-> FALSE,
          posts |-> [i \in 1..(IF failAt \in 1..Len(r.posts) THEN failAt - 1 ELSE Len(r.posts)) |->
                        WithComments(r.posts[i], GetLastComments(r.posts[i].id, 2))],
          cursor |-> r.cursor, hasMore |-> r.hasMore]

\* part_015:721-737  r is what repo.GetPostsSortedByComments returned; the
\* lookup of the last 2 comments fails for the post at index failAt (for
\* none when failAt is 0), and the first failure fails the call
GetPostsWithComments(r, failAt) ==
    IF r.err THEN r
    ELSE IF failAt \in 1..Len(r.posts)
    THEN [err |-> TRUE, posts |-> <<>>, cursor |-> NoCursor, hasMore |-> FALSE]
    ELSE [err |-> FALSE,
          posts |-> [i \in 1..Len(r.posts) |->
                        WithComments(r.posts[i], GetLastComments(r.posts[i].id, 2))],
          cursor |-> r.cursor, hasMore |-> r.hasMore]

\* limits the feed client asks for
FeedLimits == {0, 1, 2}

\* post p was created p-th by the accounts in turn and has p live comments
\* (at most MaxComments) and one soft-deleted comment, the oldest
InitFeed ==
    /\ accounts = AccountIds
    /\ blobs = {}
    /\ posts = {[id |-> p, creator_id |-> ((p - 1) % MaxAccounts) + 1, deleted |-> FALSE,
                 created_at |-> p, image_path |-> NoPath] : p \in ListPostIds}
    /\ comments = UNION {{CommentRow(p, k, FALSE) : k \in 1..(IF p < MaxComments THEN p ELSE MaxComments)}
                           \cup {CommentRow(p, 0, TRUE)} : p \in ListPostIds}
    /\ EraseIdle
    /\ UploadIdle
    /\ FeedIdle
    /\ SecondIdle
    /\ lcursor = NoCursor /\ lstate = "start"
    /\ lresp = NoResponse /\ lprev = NoRow /\ lseen = <<>>
    /\ lquery = NoQuery /\ lstatus = 0
    /\ llimit \in FeedLimits

\* cursors the feed client passes to function fn: none, or the one its last
\* call of fn returned
FeedCursors(fn) == {NoCursor} \cup (IF fcall.fn = fn /\ ~fresp.err THEN {fresp.cursor} ELSE {})

\* part_015:721-742  the service's ranked listing
FeedRanked ==
    /\ fcalls < MaxFeedCalls
    /\ \E cursor \in FeedCursors("ranked"), order \in OrderedRows(posts_with_comment_count) :
          LET r == GetPostsSortedByComments(cursor, llimit, order)
          IN  \E failAt \in 0..Len(r.posts) :
                /\ fcall' = [fn |-> "ranked", cursor |-> cursor, creator |-> 0]
                /\ frepo' = r
                /\ ffail' = failAt
                /\ fresp' = GetPostsWithComments(r, failAt)
    /\ fcalls' = fcalls + 1
    /\ UNCHANGED <<storeVars, eraseVars, listVars, uploadVars, fwrites, secondVars>>

\* repository.go:131-189  GetAll
FeedAll ==
    /\ fcalls < MaxFeedCalls
    /\ \E cursor \in FeedCursors("all"), order \in NewestFirst(LivePosts) :
          /\ fcall' = [fn |-> "all", cursor |-> cursor, creator |-> 0]
          /\ fresp' = GetAll(cursor, llimit, order)
    /\ frepo' = NoResponse /\ ffail' = 0
    /\ fcalls' = fcalls + 1
    /\ UNCHANGED <<storeVars, eraseVars, listVars, uploadVars, fwrites, secondVars>>

\* repository.go:70-128  GetByCreatorID
FeedByCreator(creatorID) ==
    /\ fcalls < MaxFeedCalls
    /\ \E cursor \in FeedCursors("creator"), order \in NewestFirst(PostsOfCreator(creatorID)) :
          /\ fcall' = [fn |-> "creator", cursor |-> cursor, creator |-> creatorID]
          /\ fresp' = GetByCreatorID(creatorID, cursor, llimit, order)
    /\ frepo' = NoResponse /\ ffail' = 0
    /\ fcalls' = fcalls + 1
    /\ UNCHANGED <<storeVars, eraseVars, listVars, uploadVars, fwrites, secondVars>>

\* part_014:481  UPDATE comments SET deleted_at = ... WHERE id = $1 AND
\* deleted_at IS NULL
SoftDeleteComment(c) ==
    /\ fwrites < MaxWrites
    /\ c \in comments /\ ~c.deleted
    /\ comments' = (comments \ {c}) \cup {[c EXCEPT !.deleted = TRUE]}
    /\ fwrites' = fwrites + 1
    /\ UNCHANGED <<accounts, posts, blobs, eraseVars, listVars, uploadVars,
                   fcall, frepo, fresp, ffail, fcalls, secondVars>>

\* repository.go:212-224  UPDATE posts SET deleted_at = ... WHERE id = $2 AND
\* deleted_at IS NULL
SoftDelete(p) ==
    /\ fwrites < MaxWrites
    /\ p \in posts /\ ~p.deleted
    /\ posts' = (posts \ {p}) \cup {[p EXCEPT !.deleted = TRUE]}
    /\ fwrites' = fwrites + 1
    /\ UNCHANGED <<accounts, comments, blobs, eraseVars, listVars, uploadVars,
                   fcall, frepo, fresp, ffail, fcalls, secondVars>>

NextFeed ==
    \/ FeedRanked
    \/ FeedAll
    \/ \E a \in AccountIds : FeedByCreator(a)
    \/ \E c \in comments : SoftDeleteComment(c)
    \/ \E p \in posts : SoftDelete(p)

SpecFeed == InitFeed /\ [][NextFeed]_vars

(* --------------------- claims about the erasure ------------------------ *)

\* relational part of a snapshot, and of the committed state
Relational(snap) == [accounts |-> snap.accounts, posts |-> snap.posts, comments |-> snap.comments]
RelationalNow == Relational(Snapshot)

\* the transaction ended with its changes discarded: by Rollback, or by a
\* Commit that failed
TxDiscarded == tx \in {"rolledback", "commitfailed"}

\* deleting the blob behind a collected path failed: one of the DeleteObject
\* requests made for it failed
BlobDeleteFailed(path) == Range(deleteTargets(path)) \cap s3Failed # {}

\* the objects the account owned when the call started: the objects of its
\* live posts
OwnedBlobs(a, snap) ==
    {k \in snap.blobs : \E p \in snap.posts :
        /\ p.creator_id = a /\ ~p.deleted /\ p.image_path # NoPath
        /\ k \in Range(deleteTargets(p.image_path))}

\* C1: the transaction is committed only if the deletion of every collected
\* blob succeeded: no state has the transaction committed after a blob
\* deletion of this call failed.
C1_CommitOnlyAfterBlobDeletes ==
    tx = "committed" => \A i \in 1..Len(imagePaths) : ~BlobDeleteFailed(imagePaths[i])

\* C2: for an account owning two blobs where the deletion of the second one
\* fails, the call returns an error and the account row and both post rows
\* are as before the call.
C2_SecondBlobFailureKeepsRows ==
    (/\ pc = "done"
     /\ Len(imagePaths) = 2
     /\ ~BlobDeleteFailed(imagePaths[1])
     /\ BlobDeleteFailed(imagePaths[2]))
    => /\ result \notin {"none", "ok"}
       /\ RelationalNow = Relational(pre)

\* C3: whenever the call returns success, every blob the account owned is
\* absent from the blob store, and the account row and every post and comment
\* row referencing the account are absent from the relational store.
C3_SuccessErasesEverything ==
    (pc = "done" /\ result = "ok")
    => /\ OwnedBlobs(id, pre) \cap blobs = {}
       /\ id \notin accounts
       /\ \A p \in posts : p.creator_id # id
       /\ \A c \in comments : c.creator_id # id

\* C4: two calls in sequence for the same id give success and then an error
\* (not found); a call for an id whose account row is absent never returns
\* success, deletes no blob and commits no row change.
C4_AbsentAccountNotFound ==
    /\ (pc = "done" /\ prevOk = id) => result # "ok"
    /\ (pc = "done" /\ id \notin pre.accounts)
          => (result # "ok" /\ s3Calls = {} /\ RelationalNow = Relational(pre))

\* C5: if deleting the blob of a collected key fails, no deletion is attempted
\* for the keys after it, the transaction is rolled back and the returned
\* error names the failing key.
C5_BlobFailureAborts ==
    \A i \in 1..Len(imagePaths) :
        BlobDeleteFailed(imagePaths[i])
        => /\ \A j \in (i+1)..Len(imagePaths) : imagePaths[j] \notin s3Calls
           /\ pc = "done" /\ tx = "rolledback"
           /\ result = "image_failed" /\ errKey = imagePaths[i]

\* C6: every error after the transaction was opened (key collection, blob
\* deletion, row deletion, commit) ends the transaction with its changes
\* discarded before the error is returned, and a call that returned an error
\* left the committed relational state as it was before the call.
C6_ErrorsRollBack ==
    /\ (pc = "done" /\ result \notin {"ok", "begin_failed"}) => TxDiscarded
    /\ s3Failed # {} => (pc = "done" /\ result # "ok" /\ TxDiscarded)
    /\ (pc = "done" /\ result # "ok") => RelationalNow = Relational(pre)

\* the step of section 4.4 the call is in
Stage ==
    CASE pc = "idle"   -> "Idle"
      [] pc = "begin"  -> "Started"
      [] pc = "loop"   -> "CollectedKeys"
      [] pc = "delete" -> "BlobsDeleted"
      [] pc = "commit" -> "RowsDeleted"
      [] pc = "done" /\ result = "ok" -> "Committed"
      [] pc = "done" /\ result = "begin_failed" -> "NotStarted"
      [] OTHER -> "RolledBack"

StageOrder ==
    {<<"Idle", "Started">>, <<"Idle", "NotStarted">>,
     <<"Started", "CollectedKeys">>, <<"Started", "BlobsDeleted">>,
     <<"CollectedKeys", "CollectedKeys">>, <<"CollectedKeys", "BlobsDeleted">>,
     <<"BlobsDeleted", "RowsDeleted">>, <<"RowsDeleted", "Committed">>,
     <<"Started", "RolledBack">>, <<"CollectedKeys", "RolledBack">>,
     <<"BlobsDeleted", "RolledBack">>, <<"RowsDeleted", "RolledBack">>,
     <<"Committed", "Started">>, <<"Committed", "NotStarted">>,
     <<"RolledBack", "Started">>, <<"RolledBack", "NotStarted">>,
     <<"NotStarted", "Started">>, <<"NotStarted", "NotStarted">>}

\* C7: a call goes Started -> CollectedKeys -> BlobsDeleted -> RowsDeleted ->
\* Committed, enters a step only after the previous one succeeded (BlobsDeleted
\* and the steps after it only with every collected blob deleted), ends in
\* RolledBack on a failure, and issues no operation after Committed or RolledBack.
C7_StepOrder ==
    [][/\ <<Stage, Stage'>> \in StageOrder
       /\ Stage' \in {"BlobsDeleted", "RowsDeleted", "Committed"}
             => \A i \in 1..Len(imagePaths') : ~BlobDeleteFailed(imagePaths[i])'
       /\ Stage' = "RolledBack" => TxDiscarded'
       /\ Stage' = "Committed" => tx' = "committed"
       /\ (Stage \in {"Committed", "RolledBack"} /\ Stage' \notin {"Started", "NotStarted"})
             => UNCHANGED storeVars]_vars


\* the call has collected its keys and has not returned
Collected == pc \in {"loop", "delete", "commit"}

\* the posts of the account of the call that are not soft-deleted, as the
\* transaction saw them
LivePostsOfAccount == {p \in pre.posts : p.creator_id = id /\ ~p.deleted}

\* C16: the collected keys are exactly the keys of the posts whose creator
\* is the account and that are not soft-deleted: one key for every such post,
\* no key of a soft-deleted post or of a post of another account.
C16_OneKeyPerLivePost ==
    Collected
    => /\ Len(imagePaths) = Cardinality(LivePostsOfAccount)
       /\ \A p \in LivePostsOfAccount : \E i \in 1..Len(imagePaths) : imagePaths[i] = p.image_path
       /\ \A i \in 1..Len(imagePaths) : \E p \in LivePostsOfAccount : imagePaths[i] = p.image_path

\* C16 as amended: one key for every such post that has a non-empty
\* image_path; a post with an empty image_path gives no key.
C16_OneKeyPerLivePostWithImage ==
    Collected
    => LET withImage == {p \in LivePostsOfAccount : p.image_path # NoPath}
       IN  /\ Len(imagePaths) = Cardinality(withImage)
           /\ \A p \in withImage : \E i \in 1..Len(imagePaths) : imagePaths[i] = p.image_path
           /\ \A i \in 1..Len(imagePaths) : \E p \in withImage : imagePaths[i] = p.image_path

\* keys were collected for an account that has a post with an image and a
\* post with an empty image_path
C16_Witness ==
    /\ Collected
    /\ Len(imagePaths) = 1
    /\ \E p \in LivePostsOfAccount : p.image_path = NoPath

\* C18: in no state is the deletion of the account's row committed while an
\* object the account owned is still in the blob store, also when the process
\* dies between the last blob deletion and the commit.
C18_NoOrphanedBlobs ==
    (id \in pre.accounts /\ id \notin accounts)
    => OwnedBlobs(id, pre) \cap blobs = {}

\* C19: once the caller has cancelled the request, no further blob deletion
\* is started, and the call returns with its transaction rolled back.
C19_CancelStopsBlobDeletes ==
    [][/\ (cancelled /\ cancelled') => (idx' = idx /\ blobs' = blobs)
       /\ (cancelled' /\ pc' = "done") => (result' # "ok" /\ tx' = "rolledback")]_vars

\* C20: when Commit fails after every blob deletion succeeded, the call
\* returns an error, never success.
C20_CommitFailureReturned ==
    (pc = "done" /\ tx = "commitfailed") => result = "commit_failed"

\* a call that deleted the blobs of its account without a failed request
\* returned after a failed Commit
C20_Witness ==
    /\ pc = "done" /\ tx = "commitfailed"
    /\ Len(imagePaths) > 0 /\ s3Failed = {}
    /\ OwnedBlobs(id, pre) \cap blobs = {}
    /\ RelationalNow = Relational(pre)

\* C21: deleting the blob of a collected key that is no longer in the blob
\* store is a success: the loop goes on to the next key, the transaction stays
\* open and is not rolled back.
C21_AbsentKeyIsSuccess ==
    [][(pc = "loop" /\ imagePaths[idx] \notin blobs)
       => /\ pc' \in {"loop", "delete"}
          /\ idx' = idx + 1
          /\ tx' = "open"
          /\ rollbacks' = rollbacks]_vars

\* an erasure whose collected keys were all gone from the blob store when it
\* started returned success
C21_Witness ==
    /\ pc = "done" /\ result = "ok"
    /\ Len(imagePaths) > 0
    /\ \A i \in 1..Len(imagePaths) : imagePaths[i] \notin pre.blobs

TxClosedOnce ==
    (pc = "done" /\ result # "begin_failed")
    => \/ tx \in {"committed", "commitfailed"} /\ rollbacks = 0
       \/ tx = "rolledback" /\ rollbacks = 1

\* C28: every call terminates, and at every return after a transaction was
\* opened that transaction has been closed exactly once: it is not left
\* open, and Commit and Rollback are not both applied to it.
C28_TerminatesAndClosesOnce ==
    /\ [](Running => <>(pc = "done"))
    /\ []TxClosedOnce

\* a call returned the error of DeleteTx after one Rollback
C28_Witness ==
    /\ pc = "done" /\ result = "delete_failed"
    /\ tx = "rolledback" /\ rollbacks = 1

\* C30: when CreatePostWithImage returns an error, no object written by that
\* call is left in the blob store.
C30_FailedUploadLeavesNothing ==
    (upc = "done" /\ uresult # "ok")
    => \A k \in blobs : k.ts # uts

\* C17: for every post created through the upload path, deleting the post's
\* image requests the deletion of both objects the post owns, the processed
\* one and the original one written at upload time, whatever accepted
\* extension the uploaded file had.
C17_DeleteAttemptsBothObjects ==
    \A p \in posts, u \in uploads :
        (p.deleted /\ p.image_path = processedKey(u.ts))
        => {processedKey(u.ts), originalKey(u.ts, u.ext)} \subseteq dcalls

(* ------------------ claims about the ranked listing -------------------- *)

LivePostIds == {p.id : p \in {q \in posts : ~q.deleted}}

\* C8: with no write between the calls, following the cursor from the first
\* page until hasMore is false returns every live post exactly once.
C8_PagingCoversEveryPostOnce ==
    lstate \in {"done", "failed"}
    => /\ lstate = "done"
       /\ Range(lseen) = LivePostIds
       /\ Len(lseen) = Cardinality(LivePostIds)

\* rows strictly after the boundary row b in the ranked order
StrictlyAfter(r, b) ==
    \/ r.comment_count < b.comment_count
    \/ r.comment_count = b.comment_count /\ r.created_at < b.created_at

\* C9: a call with the cursor of a page whose last row is (c, t) returns the
\* first rows, in ranked order, among those with comment_count < c or
\* (comment_count = c and created_at < t), and nothing at or before (c, t).
C9_PageResumesAfterBoundary ==
    lprev # NoRow
    => /\ ~lresp.err
       /\ \E order \in OrderedRows(posts_with_comment_count) :
             LET after(r) == StrictlyAfter(r, lprev)
             IN  lresp.posts = FirstN(SelectSeq(order, after), effectiveLimit(llimit))

\* C10: the cursor of a page stands for the tuple (comment_count, created_at)
\* of its last row and for no other tuple, so that decoding it gives back
\* exactly that tuple.
C10_CursorRoundTrip ==
    (~lresp.err /\ lresp.hasMore)
    => LET last == lresp.posts[Len(lresp.posts)]
       IN  \A c \in 0..MaxComments, t \in 1..MaxListPosts :
              nextCursor([id |-> 0, comment_count |-> c, created_at |-> t]) = lresp.cursor
              => (c = last.comment_count /\ t = last.created_at)

\* C11: a call with a cursor that is no well-formed token is turned down
\* before any query goes to the store and is not answered as a server error.
C11_MalformedCursorRejected ==
    (lstate = "probed" /\ Atoi(lcursor) < 0)
    => (~lquery.issued /\ lstatus # StatusInternalServerError)

\* the answer of the store is the head of a ranking of the listed posts
AnswersFirstPage ==
    \E order \in OrderedRows(posts_with_comment_count) :
        lquery.rows = FirstN(order, lquery.limitArg)

ClampedLimit == IF llimit <= 0 THEN DefaultLimit ELSE IF llimit > MaxLimit THEN MaxLimit ELSE llimit

\* C14: the effective page size is the requested limit clamped to the
\* maximum of 100: 20 for a limit <= 0, the limit itself in 1..100, and 100
\* for a limit above 100.
C14_LimitClamped ==
    lquery.issued => lquery.limitArg = ClampedLimit + 1

\* C14 as amended: the effective page size is 20 for a limit <= 0 and for a
\* limit above 100, and the limit itself in 1..100; no page is longer.
C14_LimitDefaulted ==
    lquery.issued
    => LET size == IF llimit >= 1 /\ llimit <= MaxLimit THEN llimit ELSE DefaultLimit
       IN  /\ lquery.limitArg = size + 1
           /\ Len(lresp.posts) <= size

\* a request with a limit above the maximum was answered
C14_Witness == lquery.issued /\ ~lresp.err /\ llimit > MaxLimit

\* C15: within every page, posts are in order of comment_count descending
\* and, among posts of equal comment_count, created_at descending.
C15_PageOrdered ==
    \A i, j \in 1..Len(lresp.posts) :
        i < j => \/ lresp.posts[i].comment_count > lresp.posts[j].comment_count
                 \/ /\ lresp.posts[i].comment_count = lresp.posts[j].comment_count
                    /\ lresp.posts[i].created_at >= lresp.posts[j].created_at

\* a page holds two posts of equal comment count and one of another
C15_Witness ==
    /\ Len(lresp.posts) >= 3
    /\ \E i, j \in 1..Len(lresp.posts) :
          i < j /\ lresp.posts[i].comment_count = lresp.posts[j].comment_count
    /\ \E i, j \in 1..Len(lresp.posts) :
          lresp.posts[i].comment_count > lresp.posts[j].comment_count

(* ------------------------ claims about the feed ------------------------ *)

\* the live comments of a post in a comments table
LiveCommentsOf(table, postID) == {c \in table : c.post_id = postID /\ ~c.deleted}

\* cs is the (at most 2) most recent live comments of the post, newest first
LastTwoOf(table, postID, cs) ==
    LET live == LiveCommentsOf(table, postID)
    IN  /\ Len(cs) = (IF Cardinality(live) < 2 THEN Cardinality(live) ELSE 2)
        /\ \A j \in 1..Len(cs) : cs[j] \in live
        /\ \A j, k \in 1..Len(cs) : j < k => cs[j].created_at > cs[k].created_at
        /\ \A c \in live : (\A j \in 1..Len(cs) : cs[j] # c)
                              => \A j \in 1..Len(cs) : c.created_at < cs[j].created_at

\* a ranked call of the service has just returned
RankedReturns == fcalls' # fcalls /\ fcall'.fn = "ranked"

\* C22: when GetPostsWithComments succeeds, its posts are the repository's
\* posts in the repository's order, its cursor and hasMore are the
\* repository's, and each post's Comments are at most 2 comments: the most
\* recent non-deleted comments of that post
C22_EnrichmentKeepsPagination ==
    [][(RankedReturns /\ ~fresp'.err)
       => /\ ~frepo'.err
          /\ fresp'.cursor = frepo'.cursor
          /\ fresp'.hasMore = frepo'.hasMore
          /\ Len(fresp'.posts) = Len(frepo'.posts)
          /\ \A i \in 1..Len(fresp'.posts) :
                /\ fresp'.posts[i].id = frepo'.posts[i].id
                /\ fresp'.posts[i].created_at = frepo'.posts[i].created_at
                /\ fresp'.posts[i].deleted = frepo'.posts[i].deleted
                /\ fresp'.posts[i].comment_count = frepo'.posts[i].comment_count
                /\ Len(fresp'.posts[i].comments) <= 2
                /\ LastTwoOf(comments', fresp'.posts[i].id, fresp'.posts[i].comments)]_vars

\* a ranked page with more to come was enriched, and one of its posts has more
\* than 2 live comments
C22_Witness ==
    /\ fcall.fn = "ranked" /\ ~fresp.err /\ fresp.hasMore /\ fwrites = 0
    /\ \E i \in 1..Len(fresp.posts) :
          /\ Len(fresp.posts[i].comments) = 2
          /\ Cardinality(LiveCommentsOf(comments, fresp.posts[i].id)) > 2

\* C23: when the last-comments lookup fails for a post of the page, the
\* ranked call returns an error and no posts
C23_LookupFailureFailsCall ==
    (fcall.fn = "ranked" /\ ffail # 0) => (fresp.err /\ fresp.posts = <<>>)

\* the lookup failed for the second post of a page whose first lookup worked
C23_Witness ==
    fcall.fn = "ranked" /\ ~frepo.err /\ Len(frepo.posts) >= 2 /\ ffail = 2

\* C24: every post a ranked call returns is not soft-deleted at the time of
\* the call and its comment_count is the number of its comments that are not
\* soft-deleted at that time
C24_LivePostsLiveCounts ==
    [][(RankedReturns /\ ~fresp'.err)
       => \A i \in 1..Len(fresp'.posts) :
            /\ \E q \in posts' : q.id = fresp'.posts[i].id /\ ~q.deleted
            /\ fresp'.posts[i].comment_count
                 = Cardinality(LiveCommentsOf(comments', fresp'.posts[i].id))]_vars

\* after a comment and a post were soft-deleted, a ranked call returned a post
\* with fewer comments than it had at first
C24_Witness ==
    /\ fcall.fn = "ranked" /\ ~fresp.err
    /\ \E q \in posts : q.deleted
    /\ \E i \in 1..Len(fresp.posts) :
          fresp.posts[i].comment_count
            < (IF fresp.posts[i].id < MaxComments THEN fresp.posts[i].id ELSE MaxComments)

\* the response of the repository function the feed called last
RepoResponse == IF fcall.fn = "ranked" THEN frepo ELSE fresp

\* C29: every response of GetPostsSortedByComments, GetAll and GetByCreatorID
\* has at most effective-limit posts, and a cursor exactly when hasMore
C29_ResponseShape ==
    fcall.fn # "none"
    => /\ Len(RepoResponse.posts) <= effectiveLimit(llimit)
       /\ (RepoResponse.cursor # NoCursor) <=> RepoResponse.hasMore

\* GetAll answered a call that carried a cursor with a full page and more to come
C29_Witness ==
    /\ fcall.fn = "all" /\ fcall.cursor # NoCursor
    /\ ~fresp.err /\ fresp.hasMore /\ fresp.cursor # NoCursor
    /\ Len(fresp.posts) = effectiveLimit(llimit)

(* ---------------- claims about erasure beside other calls -------------- *)

\* the objects in the bucket that belong to posts account a created
BlobsOfCreator(a) ==
    {k \in blobs : \E u \in uploads :
        u.creator = a /\ k \in {processedKey(u.ts), originalKey(u.ts, u.ext)}}

\* C25: after a successful erasure of an existing account in which every
\* DeleteObject request succeeded, no object of a post of that account is in
\* the bucket, whenever its posts were created
C25_RaceLeavesNoBlob ==
    (pc = "done" /\ result = "ok" /\ id \in pre.accounts /\ s3Failed = {})
    => BlobsOfCreator(id) = {}

\* C26: of two GDPRDeleteAccount calls for the same id that run at the same
\* time, at most one returns success
C26_AtMostOneSuccess ==
    (pc = "done" /\ pc2 = "done" /\ id2 = id) => ~(result = "ok" /\ result2 = "ok")

====
